---- MODULE Spec2Model ----
(***************************************************************************)
(* A model of matrixprofile/core.py: the batch planner (a generator), the  *)
(* two sliding-dot-product kernels, the non-finite scan and sanitizer, the *)
(* distance-profile formula, the exclusion-zone mask and the job-count     *)
(* clamp.  The library holds no state of its own; the state below is the   *)
(* caller's: the arrays it passes (some are written in place), the         *)
(* position of a generator it is iterating, and the value or exception the *)
(* last call produced.                                                     *)
(***************************************************************************)
EXTENDS Integers, Sequences, FiniteSets

VARIABLES
    pc,              \* position of the call / generator in progress
    profile_length,  \* generate_batch_jobs: argument
    n_jobs,          \* generate_batch_jobs: argument
    batch_size,      \* generate_batch_jobs: local
    i,               \* generate_batch_jobs: loop variable
    yielded,         \* generate_batch_jobs: the tuples yielded so far
    ts,              \* the caller's time series array
    query,           \* the caller's query array
    trace,           \* numpy primitives executed by the calls, in order
    outcome,         \* per-call outcome: value returned or exception raised
    args,            \* arguments of the last call to a pure function
    ret,             \* value returned by the last call to a pure function
    profile          \* the caller's distance profile array

vars == <<pc, profile_length, n_jobs, batch_size, i, yielded,
          ts, query, trace, outcome, args, ret, profile>>

batchVars == <<profile_length, n_jobs, batch_size, i, yielded>>
arrayVars == <<ts, query, trace, outcome>>
callVars  == <<args, ret, profile>>

(***************************************************************************)
(* Bounds of the model.                                                    *)
(***************************************************************************)
MaxProfileLength == 10
MaxJobs == 10
MaxLen == 3
MaxCpus == 6
MaxRadius == 3
MaxDataLength == 5
MaxDistLen == 2

None == "None"

IdleBatch == /\ profile_length = 0 /\ n_jobs = 0 /\ batch_size = 0
             /\ i = 0 /\ yielded = <<>>
IdleArrays == /\ ts = <<>> /\ query = <<>> /\ trace = <<>> /\ outcome = None
IdleCall == /\ args = None /\ ret = None /\ profile = <<>>

Min(a, b) == IF a < b THEN a ELSE b
Max(a, b) == IF a > b THEN a ELSE b

(***************************************************************************)
(* generate_batch_jobs                                                     *)
(***************************************************************************)

FloorDiv(a, b) == a \div b

\* int(math.ceil(profile_length / n_jobs)), for n_jobs >= 1
CeilDiv(a, b) == (a + b - 1) \div b

IsSingleBatchNever(bs, pl) == FALSE

\* the test `batch_size == profile_length`
IsSingleBatch(bs, pl) == bs = pl

ClampEndMissing(end, pl) == end

\* `if end > profile_length: end = profile_length`
ClampEnd(end, pl) == IF end > pl THEN pl ELSE end

\* the tuple yielded by iteration k of the for loop
LoopBatch(k, bs, pl) == <<k * bs, ClampEnd((k + 1) * bs, pl)>>

\* Calling the generator function: binds the arguments, runs no body code.
GenerateBatchJobs ==
    /\ pc \in {"idle", "exhausted"}
    /\ \E pl \in 1..MaxProfileLength, nj \in 1..MaxJobs :
          /\ profile_length' = pl
          /\ n_jobs' = nj
    /\ batch_size' = 0
    /\ i' = 0
    /\ yielded' = <<>>
    /\ pc' = "created"
    /\ UNCHANGED <<arrayVars, callVars>>

\* First next(): runs from the top of the body to the first yield.
GenFirstSingle ==
    /\ pc = "created"
    /\ IsSingleBatch(CeilDiv(profile_length, n_jobs), profile_length)
    /\ batch_size' = CeilDiv(profile_length, n_jobs)
    /\ yielded' = Append(yielded, <<0, profile_length>>)
    /\ pc' = "after_single"
    /\ UNCHANGED <<profile_length, n_jobs, i, arrayVars, callVars>>

GenFirstLoop ==
    /\ pc = "created"
    /\ ~IsSingleBatch(CeilDiv(profile_length, n_jobs), profile_length)
    /\ batch_size' = CeilDiv(profile_length, n_jobs)
    /\ i' = 0
    /\ yielded' = Append(yielded, LoopBatch(0, batch_size', profile_length))
    /\ pc' = "in_loop"
    /\ UNCHANGED <<profile_length, n_jobs, arrayVars, callVars>>

\* A later next() inside the for loop: next iteration, up to its yield.
GenNextLoop ==
    /\ pc = "in_loop"
    /\ i + 1 < n_jobs
    /\ i' = i + 1
    /\ yielded' = Append(yielded, LoopBatch(i', batch_size, profile_length))
    /\ UNCHANGED <<pc, profile_length, n_jobs, batch_size, arrayVars, callVars>>

\* A next() that finds nothing left: the body returns (StopIteration).
GenStop ==
    /\ \/ pc = "after_single"
       \/ pc = "in_loop" /\ ~(i + 1 < n_jobs)
    /\ pc' = "exhausted"
    /\ UNCHANGED <<batchVars, arrayVars, callVars>>

InitBatch == pc = "idle" /\ IdleBatch /\ IdleArrays /\ IdleCall

NextBatch ==
    \/ GenerateBatchJobs
    \/ GenFirstSingle
    \/ GenFirstLoop
    \/ GenNextLoop
    \/ GenStop

SpecBatch == InitBatch /\ [][NextBatch]_vars

\* the indices a yielded (start, end) selects
IndexSet(r) == {j \in 0..MaxProfileLength + 1 : r[1] <= j /\ j < r[2]}

\* C1: once the generator is exhausted, the index sets of the yielded ranges
\* are pairwise disjoint, their union is 0..profile_length-1, and the
\* ranges came in strictly ascending order of start.
C1_Partition ==
    pc = "exhausted" =>
        /\ \A a, b \in 1..Len(yielded) :
              a # b => IndexSet(yielded[a]) \cap IndexSet(yielded[b]) = {}
        /\ UNION {IndexSet(yielded[a]) : a \in 1..Len(yielded)}
              = 0..(profile_length - 1)
        /\ \A a, b \in 1..Len(yielded) : a < b => yielded[a][1] < yielded[b][1]

C1_Witness ==
    /\ pc = "exhausted" /\ profile_length = 10 /\ n_jobs = 3
    /\ yielded = << <<0, 4>>, <<4, 8>>, <<8, 10>> >>

\* C2 as stated: whenever n_jobs exceeds profile_length, the exhausted
\* generator has yielded exactly the one range (0, profile_length).
C2_Original ==
    (pc = "exhausted" /\ n_jobs > profile_length) =>
        yielded = << <<0, profile_length>> >>

\* C2 amended: exactly one range (0, profile_length) is yielded iff
\* ceil(profile_length / n_jobs) = profile_length, i.e. n_jobs = 1 or
\* profile_length = 1; otherwise n_jobs ranges are yielded, and when
\* n_jobs > profile_length >= 2 these are the profile_length unit ranges
\* (k-1, k) followed by the ranges (k-1, profile_length), which hold no index.
C2_Amended ==
    pc = "exhausted" =>
        /\ (n_jobs = 1 \/ profile_length = 1) <=> Len(yielded) = 1
        /\ Len(yielded) = 1 => yielded = << <<0, profile_length>> >>
        /\ Len(yielded) # 1 => Len(yielded) = n_jobs
        /\ (n_jobs > profile_length /\ profile_length >= 2) =>
              \A k \in 1..n_jobs :
                  yielded[k] = IF k <= profile_length
                                 THEN <<k - 1, k>>
                                 ELSE <<k - 1, profile_length>>

C2_Witness ==
    /\ pc = "exhausted" /\ profile_length = 5 /\ n_jobs = 10
    /\ Len(yielded) = 10
    /\ yielded[5] = <<4, 5>> /\ yielded[6] = <<5, 5>> /\ yielded[10] = <<9, 5>>

\* C10 as stated: every yielded range has 0 <= start <= end <= profile_length.
C10_Original ==
    \A k \in 1..Len(yielded) :
        /\ 0 <= yielded[k][1]
        /\ yielded[k][1] <= yielded[k][2]
        /\ yielded[k][2] <= profile_length

\* C10 amended: every yielded range has 0 <= start and 0 <= end <=
\* profile_length; start <= end holds exactly for the ranges whose start is
\* at most profile_length, and a range whose start exceeds profile_length
\* has end = profile_length (it selects no index).
C10_Amended ==
    \A k \in 1..Len(yielded) :
        /\ 0 <= yielded[k][1]
        /\ 0 <= yielded[k][2]
        /\ yielded[k][2] <= profile_length
        /\ yielded[k][1] <= yielded[k][2] <=> yielded[k][1] <= profile_length
        /\ yielded[k][1] > profile_length =>
              /\ yielded[k][2] = profile_length
              /\ IndexSet(yielded[k]) = {}

C10_Witness ==
    /\ pc = "exhausted" /\ profile_length = 5 /\ n_jobs = 4
    /\ yielded = << <<0, 2>>, <<2, 4>>, <<4, 5>>, <<6, 5>> >>

(***************************************************************************)
(* Arrays.  A numpy array of length n is a sequence; Python index k is     *)
(* position k + 1.                                                         *)
(***************************************************************************)

\* a[k], k >= 0
At0(a, k) == a[k + 1]

\* Python / numpy slice bound: negative counts from the end, then clamped
SliceBound(b, len) == IF b < 0 THEN Max(0, b + len) ELSE Min(b, len)

\* a[lo:hi]
Slice(a, lo, hi) ==
    LET l == SliceBound(lo, Len(a))
        h == SliceBound(hi, Len(a))
    IN  IF l < h THEN [k \in 1..(h - l) |-> a[l + k]] ELSE <<>>

RECURSIVE SumUpTo(_, _)
\* f[0] + ... + f[k]
SumUpTo(f, k) == IF k < 0 THEN 0 ELSE f[k] + SumUpTo(f, k - 1)

\* np.zeros(k)
Zeros(k) == [j \in 1..k |-> 0]

(***************************************************************************)
(* precheck_series_and_query_1d, fft_convolve, sliding_dot_product         *)
(***************************************************************************)

\* sample values of the integer-valued series and queries
Samples == {-1, 0, 2}

Arrays1d == UNION {[1..n -> Samples] : n \in 1..MaxLen}

\* What a caller may pass: an object of some Python type; a list, tuple or
\* ndarray has a number of axes and (when one-dimensional) its elements.
Obj(t, nd, d) == [type |-> t, ndim |-> nd, data |-> d]
RawInputs ==
    {Obj("list", 1, d) : d \in Arrays1d}
        \cup {Obj("int", 0, <<>>), Obj("ndarray", 2, <<>>)}

NotCalled == [kind |-> "none", value |-> <<>>, msg |-> ""]
Return(v) == [kind |-> "return", value |-> v, msg |-> ""]
Raise(m) == [kind |-> "raise", value |-> <<>>, msg |-> m]

\* is_array_like
is_array_like(a) == a.type \in {"list", "tuple", "ndarray"}

\* the outcome of to_np_array(a): an ndarray is returned as it is, a list
\* or tuple is copied into a new ndarray, anything else raises ValueError
to_np_array(a) ==
    IF a.type = "ndarray" THEN Return(a)
    ELSE IF ~is_array_like(a) THEN Raise("Unable to convert to np.ndarray!")
    ELSE Return([a EXCEPT !.type = "ndarray"])

\* is_one_dimensional
is_one_dimensional(a) == a.ndim = 1

\* the outcome of precheck_series_and_query_1d(ts, query)
precheck_series_and_query_1d(t, q) ==
    IF to_np_array(t).kind = "raise"
        THEN Raise("Invalid ts value given. Must be array_like!")
    ELSE IF to_np_array(q).kind = "raise"
        THEN Raise("Invalid query value given. Must be array_like!")
    ELSE IF ~is_one_dimensional(to_np_array(t).value)
        THEN Raise("ts must be one dimensional!")
    ELSE IF ~is_one_dimensional(to_np_array(q).value)
        THEN Raise("query must be one dimensional!")
    ELSE Return(<<to_np_array(t).value.data, to_np_array(q).value.data>>)

FlipUdMissing(q) == q

\* np.flipud
FlipUd(q) == [k \in 1..Len(q) |-> q[Len(q) + 1 - k]]

\* np.fft.ifft(np.fft.fft(x) * np.fft.fft(y)) for equal lengths: the
\* circular convolution of x and y (exact on integers)
CircularConvolve(x, y) ==
    LET n == Len(x)
    IN  [k1 \in 1..n |->
            SumUpTo([j \in 0..(n - 1) |->
                        At0(x, j) * At0(y, ((k1 - 1) - j) % n)], n - 1)]

\* np.convolve(a, v, mode='full')
Convolve(a, v) ==
    LET n == Len(a)
        m == Len(v)
    IN  [k1 \in 1..(n + m - 1) |->
            SumUpTo([j \in 0..(n - 1) |->
                        IF 0 <= (k1 - 1) - j /\ (k1 - 1) - j < m
                            THEN At0(a, j) * At0(v, (k1 - 1) - j)
                            ELSE 0], n - 1)]

\* the outcome of fft_convolve(ts, query)
fft_convolve(t, q) ==
    LET n == Len(t)
        m == Len(q)
    IN  IF n - m < 0
            THEN Raise("negative dimensions are not allowed")
            ELSE LET y == FlipUd(q) \o Zeros(n - m)
                     z == CircularConvolve(t, y)
                 IN  Return(Slice(z, m - 1, n))

\* the numpy primitives fft_convolve runs, in order, up to its outcome
fft_convolve_trace(t, q) ==
    IF Len(t) - Len(q) < 0
        THEN <<"np.fft.fft", "np.flipud", "np.zeros">>
        ELSE <<"np.fft.fft", "np.flipud", "np.zeros", "np.append",
               "np.fft.fft", "np.fft.ifft", "np.real">>

\* the outcome of sliding_dot_product(ts, query)
sliding_dot_product(t, q) ==
    LET m == Len(q)
        n == Len(t)
        dp == Convolve(t, FlipUd(q))
    IN  Return(Slice(dp, m - 1, n))

sliding_dot_product_trace(t, q) == <<"np.flipud", "np.convolve", "np.real">>

NoCalls == [precheck |-> NotCalled, fft |-> NotCalled, direct |-> NotCalled]

\* the caller validates its raw arguments
Precheck ==
    /\ pc = "start"
    /\ outcome' = [outcome EXCEPT
                     !.precheck = precheck_series_and_query_1d(args.ts, args.query)]
    /\ IF outcome'.precheck.kind = "return"
          THEN /\ ts' = outcome'.precheck.value[1]
               /\ query' = outcome'.precheck.value[2]
               /\ pc' = "validated"
          ELSE /\ UNCHANGED <<ts, query>>
               /\ pc' = "rejected"
    /\ UNCHANGED <<trace, args, ret, profile, batchVars>>

\* the caller takes the FFT path on the validated arrays
FftConvolve ==
    /\ pc = "validated"
    /\ outcome.fft.kind = "none"
    /\ outcome' = [outcome EXCEPT !.fft = fft_convolve(ts, query)]
    /\ trace' = trace \o fft_convolve_trace(ts, query)
    /\ UNCHANGED <<pc, ts, query, args, ret, profile, batchVars>>

\* the caller takes the direct-convolution path on the validated arrays
SlidingDotProduct ==
    /\ pc = "validated"
    /\ outcome.direct.kind = "none"
    /\ outcome' = [outcome EXCEPT !.direct = sliding_dot_product(ts, query)]
    /\ trace' = trace \o sliding_dot_product_trace(ts, query)
    /\ UNCHANGED <<pc, ts, query, args, ret, profile, batchVars>>

InitConv ==
    /\ pc = "start"
    /\ IdleBatch
    /\ args \in [ts : RawInputs, query : RawInputs]
    /\ ts = <<>> /\ query = <<>> /\ trace = <<>>
    /\ outcome = NoCalls
    /\ ret = None
    /\ profile = <<>>

NextConv ==
    \/ Precheck
    \/ FftConvolve
    \/ SlidingDotProduct

SpecConv == InitConv /\ [][NextConv]_vars

\* sum over j in [0, m) of ts[i + j] * query[j]
DotAt(t, q, k) ==
    SumUpTo([j \in 0..(Len(q) - 1) |-> At0(t, k + j) * At0(q, j)], Len(q) - 1)

IsSlidingDot(r, t, q) ==
    /\ r.kind = "return"
    /\ Len(r.value) = Len(t) - Len(q) + 1
    /\ \A k \in 0..(Len(t) - Len(q)) : At0(r.value, k) = DotAt(t, q, k)

\* C3: for a validated series and query with 1 <= m <= n, each of
\* fft_convolve and sliding_dot_product returns a vector of length
\* n - m + 1 whose entry i is the sum over j of ts[i+j] * query[j], so the
\* two agree element-wise.
C3_DotProductsAgree ==
    (pc = "validated" /\ Len(query) <= Len(ts)) =>
        /\ outcome.fft.kind # "none" => IsSlidingDot(outcome.fft, ts, query)
        /\ outcome.direct.kind # "none" => IsSlidingDot(outcome.direct, ts, query)
        /\ (outcome.fft.kind # "none" /\ outcome.direct.kind # "none") =>
              outcome.fft = outcome.direct

C3_Witness ==
    /\ pc = "validated"
    /\ ts = <<2, -1, 2>> /\ query = <<-1, 2>>
    /\ outcome.fft = Return(<<-4, 5>>)
    /\ outcome.direct = Return(<<-4, 5>>)

\* an exception message that identifies the ts or the query argument
NamesArgument(r) ==
    r.msg \in {"Invalid ts value given. Must be array_like!",
               "Invalid query value given. Must be array_like!",
               "ts must be one dimensional!",
               "query must be one dimensional!"}

\* C4: a one-dimensional series and query with m > n are rejected: the
\* validation, or failing that the dot-product path taken, raises an error
\* that identifies the offending argument, and no numpy primitive has run.
C4_LongQueryRejected ==
    LET longQuery == /\ is_array_like(args.ts) /\ args.ts.ndim = 1
                     /\ is_array_like(args.query) /\ args.query.ndim = 1
                     /\ Len(args.query.data) > Len(args.ts.data)
        rejectedBy(r) == r.kind = "raise" /\ NamesArgument(r) /\ trace = <<>>
    IN  longQuery =>
            /\ outcome.fft.kind # "none" =>
                  rejectedBy(outcome.precheck) \/ rejectedBy(outcome.fft)
            /\ outcome.direct.kind # "none" =>
                  rejectedBy(outcome.precheck) \/ rejectedBy(outcome.direct)

(***************************************************************************)
(* Floating-point values.  A finite value is an exact rational num / den   *)
(* in lowest terms; NaN and the two infinities are separate kinds; the     *)
(* result of a square root of a finite q >= 0 is kept as its radicand.     *)
(***************************************************************************)

RECURSIVE Gcd(_, _)
Gcd(a, b) == IF b = 0 THEN a ELSE Gcd(b, a % b)

Abs(a) == IF a < 0 THEN -a ELSE a
Sgn(a) == IF a < 0 THEN -1 ELSE IF a > 0 THEN 1 ELSE 0

\* the finite value n / d, d # 0
Rat(n, d) ==
    LET g == Gcd(Abs(n), Abs(d))
    IN  [kind |-> "fin", num |-> (Sgn(d) * n) \div g, den |-> Abs(d) \div g]

Fin(n) == [kind |-> "fin", num |-> n, den |-> 1]
NaN == [kind |-> "nan", num |-> 0, den |-> 1]
PosInf == [kind |-> "inf", num |-> 1, den |-> 1]
NegInf == [kind |-> "inf", num |-> -1, den |-> 1]
Inf(sign) == IF sign < 0 THEN NegInf ELSE PosInf

\* np.isinf, np.isnan on one element
IsInf(x) == x.kind = "inf"
IsNan(x) == x.kind = "nan"
IsFinite(x) == ~IsInf(x) /\ ~IsNan(x)

(***************************************************************************)
(* find_skip_locations, clean_nan_inf                                      *)
(***************************************************************************)

MaxSeriesLen == 4

FloatSamples == {Fin(1), Fin(2), NaN, PosInf, NegInf}

FloatArrays == UNION {[1..n -> FloatSamples] : n \in 1..MaxSeriesLen}

\* the series a caller may hold: a one-dimensional list, tuple or ndarray
SeriesObjects ==
    {Obj(t, 1, d) : t \in {"list", "tuple", "ndarray"}, d \in FloatArrays}

\* an argument that is not array_like
NotASeries == Obj("int", 0, <<>>)

SkipSearchInfOnly(segment) == [k \in 1..Len(segment) |-> IsInf(segment[k])]

\* `search = (np.isinf(segment) | np.isnan(segment))` in find_skip_locations
SkipSearch(segment) ==
    [k \in 1..Len(segment) |-> IsInf(segment[k]) \/ IsNan(segment[k])]

\* np.any
NpAny(mask) == \E k \in 1..Len(mask) : mask[k]

\* find_skip_locations(ts, profile_length, window_size)
find_skip_locations(a, pl, ws) ==
    [k1 \in 1..pl |-> NpAny(SkipSearch(Slice(a, k1 - 1, (k1 - 1) + ws)))]

CleanSearchNanOnly(a) == [k \in 1..Len(a) |-> IsNan(a[k])]

\* `search = (np.isinf(ts) | np.isnan(ts))` in clean_nan_inf
CleanSearch(a) == [k \in 1..Len(a) |-> IsInf(a[k]) \/ IsNan(a[k])]

\* the elements after `ts[search] = 0`
CleanWrite(a) ==
    LET search == CleanSearch(a)
    IN  [k \in 1..Len(a) |-> IF search[k] THEN Fin(0) ELSE a[k]]

\* the outcome of clean_nan_inf(ts): to_np_array first (which may raise),
\* then the converted array is written and returned
clean_nan_inf(a) ==
    LET conv == to_np_array(a)
    IN  IF conv.kind = "raise"
            THEN conv
            ELSE Return([conv.value EXCEPT !.data = CleanWrite(conv.value.data)])

SanArgs(fn, src, before, pl, ws) ==
    [fn |-> fn, src |-> src, ts |-> before,
     profile_length |-> pl, window_size |-> ws]

\* the caller scans its series; the series is only read
FindSkipLocations ==
    /\ pc = "start"
    /\ \E pl \in 0..Len(ts.data), ws \in 1..Len(ts.data) :
          /\ args' = SanArgs("find_skip_locations", "series", ts, pl, ws)
          /\ ret' = find_skip_locations(ts.data, pl, ws)
    /\ pc' = "scanned"
    /\ UNCHANGED <<ts, query, trace, outcome, batchVars, profile>>

\* The caller passes `a` to clean_nan_inf.  `aliased` says that `a` is the
\* caller's series object itself or an ndarray that to_np_array hands back
\* unchanged and that is the same object as the caller's series; only then
\* does the write at `ts[search] = 0` reach the caller's series.
CleanCall(src, a, aliased) ==
    /\ args' = SanArgs("clean_nan_inf", src, a, 0, 0)
    /\ outcome' = clean_nan_inf(a)
    /\ IF outcome'.kind = "raise"
          THEN /\ pc' = "raised"
               /\ UNCHANGED <<ts, ret>>
          ELSE /\ pc' = IF pc = "cleaned" THEN "recleaned" ELSE "cleaned"
               /\ ret' = outcome'.value
               /\ ts' = IF aliased /\ a.type = "ndarray" THEN ret' ELSE ts
    /\ UNCHANGED <<query, trace, batchVars, profile>>

\* the caller sanitizes its series
CleanNanInf ==
    /\ pc \in {"start", "scanned", "cleaned"}
    /\ CleanCall("series", ts, TRUE)

\* the caller sanitizes the array a previous call returned
CleanReturned ==
    /\ pc = "cleaned"
    /\ CleanCall("returned", ret, ts.type = "ndarray")

\* the caller passes something that is no list, tuple or ndarray
CleanNotASeries ==
    /\ pc \in {"start", "scanned", "cleaned"}
    /\ CleanCall("other", NotASeries, FALSE)

InitSanitize ==
    /\ pc = "start"
    /\ IdleBatch
    /\ ts \in SeriesObjects
    /\ query = <<>> /\ trace = <<>> /\ outcome = NotCalled
    /\ IdleCall

NextSanitize ==
    \/ FindSkipLocations
    \/ CleanNanInf
    \/ CleanReturned
    \/ CleanNotASeries

SpecSanitize == InitSanitize /\ [][NextSanitize]_vars

\* C6: after find_skip_locations(ts, profile_length, window_size) the mask
\* has length profile_length, mask[i] is true iff some element of
\* ts[i : i + window_size] is NaN or +/-Infinity (so an all-finite series
\* gives an all-false mask), and the series is unchanged.
C6_SkipMask ==
    pc = "scanned" =>
        /\ Len(ret) = args.profile_length
        /\ \A k \in 0..(args.profile_length - 1) :
              At0(ret, k) <=>
                  \E j \in k..(k + args.window_size - 1) :
                      /\ j < Len(args.ts.data)
                      /\ At0(args.ts.data, j) \in {NaN, PosInf, NegInf}
        /\ (\A j \in 1..Len(args.ts.data) : IsFinite(args.ts.data[j])) =>
              \A k \in 1..Len(ret) : ~ret[k]
        /\ ts = args.ts

C6_Witness ==
    /\ pc = "scanned"
    /\ args.ts = Obj("list", 1, <<Fin(1), Fin(2), NaN, Fin(1)>>)
    /\ args.profile_length = 3 /\ args.window_size = 2
    /\ ret = <<FALSE, TRUE, TRUE>>

\* C7: for a series (a list, tuple or ndarray) clean_nan_inf returns a
\* series of the same length in which every position that held NaN or
\* +/-Infinity holds 0 and every finite position holds its old value;
\* cleaning a clean series returns an equal series, so cleaning the
\* returned series again changes nothing.
C7_CleanNonFinite ==
    pc \in {"cleaned", "recleaned"} =>
        /\ outcome.kind = "return"
        /\ ret = outcome.value
        /\ Len(ret.data) = Len(args.ts.data)
        /\ \A k \in 1..Len(ret.data) :
              /\ args.ts.data[k] \in {NaN, PosInf, NegInf} => ret.data[k] = Fin(0)
              /\ args.ts.data[k] \notin {NaN, PosInf, NegInf} =>
                    ret.data[k] = args.ts.data[k]
        /\ (\A k \in 1..Len(args.ts.data) : IsFinite(args.ts.data[k])) =>
              ret.data = args.ts.data
        /\ args.src = "returned" => ret = args.ts

C7_Witness ==
    /\ pc = "cleaned"
    /\ args.ts = Obj("list", 1, <<Fin(1), NaN, PosInf, NegInf>>)
    /\ ts = args.ts
    /\ ret = Obj("ndarray", 1, <<Fin(1), Fin(0), Fin(0), Fin(0)>>)

(***************************************************************************)
(* distance_profile                                                        *)
(***************************************************************************)

FNeg(a) == IF a.kind = "nan" THEN NaN ELSE [a EXCEPT !.num = -a.num]

\* IEEE addition
FAdd(a, b) ==
    IF IsNan(a) \/ IsNan(b) THEN NaN
    ELSE IF IsInf(a) /\ IsInf(b) THEN (IF a.num = b.num THEN a ELSE NaN)
    ELSE IF IsInf(a) THEN a
    ELSE IF IsInf(b) THEN b
    ELSE Rat(a.num * b.den + b.num * a.den, a.den * b.den)

FSub(a, b) == FAdd(a, FNeg(b))

\* IEEE multiplication
FMul(a, b) ==
    IF IsNan(a) \/ IsNan(b) THEN NaN
    ELSE IF IsInf(a) \/ IsInf(b)
        THEN (IF a.num = 0 \/ b.num = 0 THEN NaN ELSE Inf(Sgn(a.num) * Sgn(b.num)))
    ELSE Rat(a.num * b.num, a.den * b.den)

FDivClamped(a, b) ==
    IF IsNan(a) \/ IsNan(b) THEN NaN
    ELSE IF IsInf(a) /\ IsInf(b) THEN NaN
    ELSE IF IsInf(a) THEN Inf(a.num * (IF b.num < 0 THEN -1 ELSE 1))
    ELSE IF IsInf(b) THEN Fin(0)
    ELSE IF b.num = 0 THEN Fin(0)
    ELSE Rat(a.num * b.den, a.den * b.num)

\* IEEE division as numpy performs it on arrays: x / 0 is +/-inf for
\* x # 0 and nan for x = 0 (a RuntimeWarning, not an exception)
FDiv(a, b) ==
    IF IsNan(a) \/ IsNan(b) THEN NaN
    ELSE IF IsInf(a) /\ IsInf(b) THEN NaN
    ELSE IF IsInf(a) THEN Inf(a.num * (IF b.num < 0 THEN -1 ELSE 1))
    ELSE IF IsInf(b) THEN Fin(0)
    ELSE IF b.num = 0 THEN (IF a.num = 0 THEN NaN ELSE Inf(a.num))
    ELSE Rat(a.num * b.den, a.den * b.num)

\* np.real on a real-valued element
FReal(a) == a

\* np.sqrt under errstate(invalid='ignore'): nan for a negative operand;
\* the root of a finite q >= 0 is represented by its radicand q
FSqrt(a) ==
    IF IsNan(a) THEN NaN
    ELSE IF IsInf(a) THEN (IF a.num > 0 THEN PosInf ELSE NaN)
    ELSE IF a.num < 0 THEN NaN
    ELSE [kind |-> "sqrt", num |-> a.num, den |-> a.den]

\* element-wise operations with a broadcast scalar
MulSA(c, a) == [k \in 1..Len(a) |-> FMul(c, a[k])]
MulAS(a, c) == [k \in 1..Len(a) |-> FMul(a[k], c)]
SubSA(c, a) == [k \in 1..Len(a) |-> FSub(c, a[k])]
SubAA(a, b) == [k \in 1..Len(a) |-> FSub(a[k], b[k])]
DivAA(a, b) == [k \in 1..Len(a) |-> FDiv(a[k], b[k])]

\* distance_profile(prod, ws, data_mu, data_sig, query_mu, query_sig)
distance_profile(prod, ws, data_mu, data_sig, query_mu, query_sig) ==
    LET numer == SubAA(prod, MulAS(MulSA(Fin(ws), data_mu), query_mu))
        denom == MulAS(data_sig, query_sig)
        d_sq  == MulSA(Fin(2), SubSA(Fin(ws), DivAA(numer, denom)))
    IN  [k \in 1..Len(d_sq) |-> FSqrt(FReal(d_sq[k]))]

FinArrays(n, S) == {[k \in 1..n |-> Fin(f[k])] : f \in [1..n -> S]}

DistInputs ==
    UNION {[prod : FinArrays(n, {-1, 0, 3}), ws : {2, 3},
            data_mu : FinArrays(n, {0, 1}), data_sig : FinArrays(n, {0, 1, 2}),
            query_mu : {Fin(0), Fin(1)}, query_sig : {Fin(0), Fin(2)}]
           : n \in 1..MaxDistLen}

DistanceProfile ==
    /\ pc = "start"
    /\ profile' = distance_profile(args.prod, args.ws, args.data_mu,
                                   args.data_sig, args.query_mu, args.query_sig)
    /\ ret' = profile'
    /\ pc' = "done"
    /\ UNCHANGED <<args, arrayVars, batchVars>>

InitDist ==
    /\ pc = "start"
    /\ IdleBatch /\ IdleArrays
    /\ args \in DistInputs
    /\ ret = None /\ profile = <<>>

NextDist == DistanceProfile

SpecDist == InitDist /\ [][NextDist]_vars

\* sqrt(2 * (ws - (prod[j] - ws * mu[j] * qmu) / (sig[j] * qsig))) for one
\* position with sig[j] * qsig # 0, over the integers
FormulaAt(a, k) ==
    LET d == a.data_sig[k].num * a.query_sig.num
        x == a.prod[k].num - a.ws * a.data_mu[k].num * a.query_mu.num
        q == Rat(2 * (a.ws * d - x), d)
    IN  IF q.num < 0 THEN NaN ELSE [kind |-> "sqrt", num |-> q.num, den |-> q.den]

\* C9: distance_profile returns a profile of the input length whose entry
\* is nan or +/-inf at every position with data_sig = 0 (and everywhere
\* when query_sig = 0), and at every other position j is what the formula
\* gives for j alone.
C9_ZeroStd ==
    pc = "done" =>
        /\ Len(ret) = Len(args.prod)
        /\ \A k \in 1..Len(ret) :
              IF args.data_sig[k] = Fin(0) \/ args.query_sig = Fin(0)
                  THEN ret[k] \in {NaN, PosInf, NegInf}
                  ELSE ret[k] = FormulaAt(args, k)

C9_Witness ==
    /\ pc = "done"
    /\ args.ws = 2 /\ args.query_mu = Fin(1) /\ args.query_sig = Fin(2)
    /\ args.prod = <<Fin(3), Fin(3)>>
    /\ args.data_mu = <<Fin(1), Fin(1)>>
    /\ args.data_sig = <<Fin(0), Fin(1)>>
    /\ ret = <<NaN, [kind |-> "sqrt", num |-> 3, den |-> 1]>>

(***************************************************************************)
(* apply_exclusion_zone                                                    *)
(***************************************************************************)

EzStartUnclamped(index, exclusion_zone) == index - exclusion_zone

\* `ez_start = np.max([0, index - exclusion_zone])`
EzStart(index, exclusion_zone) == Max(0, index - exclusion_zone)

\* `ez_end = np.min([data_length - window_size + 1, index + exclusion_zone])`
EzEnd(data_length, window_size, index, exclusion_zone) ==
    Min(data_length - window_size + 1, index + exclusion_zone)

\* the array after `a[lo:hi] = v`
SliceAssign(a, lo, hi, v) ==
    LET l == SliceBound(lo, Len(a))
        h == SliceBound(hi, Len(a))
    IN  [k1 \in 1..Len(a) |-> IF l <= k1 - 1 /\ k1 - 1 < h THEN v ELSE a[k1]]

\* apply_exclusion_zone: the distance profile afterwards
apply_exclusion_zone(ez, is_join, window_size, data_length, index, dp) ==
    IF ez > 0 /\ ~is_join
        THEN SliceAssign(dp, EzStart(index, ez),
                         EzEnd(data_length, window_size, index, ez), PosInf)
        ELSE dp

ProfileSamples == {Fin(1), Fin(4), PosInf}

\* the self-join caller masks the neighbourhood of `index` in its profile
ApplyExclusionZone ==
    /\ pc = "start"
    /\ \E ez \in -1..MaxRadius, join \in BOOLEAN, idx \in 0..(Len(profile) - 1) :
          /\ args' = [args EXCEPT !.exclusion_zone = ez, !.is_join = join,
                                  !.index = idx, !.distance_profile = profile]
          /\ profile' = apply_exclusion_zone(ez, join, args.window_size,
                                             args.data_length, idx, profile)
    /\ ret' = profile'
    /\ pc' = "done"
    /\ UNCHANGED <<arrayVars, batchVars>>

InitExcl ==
    /\ pc = "start"
    /\ IdleBatch /\ IdleArrays
    /\ \E n \in 1..MaxDataLength, m \in 1..MaxDataLength :
          /\ m <= n
          /\ args = [exclusion_zone |-> 0, is_join |-> FALSE, window_size |-> m,
                     data_length |-> n, index |-> 0, distance_profile |-> <<>>]
          /\ profile \in [1..(n - m + 1) -> ProfileSamples]
    /\ ret = None

NextExcl == ApplyExclusionZone

SpecExcl == InitExcl /\ [][NextExcl]_vars

\* C5: with is_join false and exclusion_zone > 0, apply_exclusion_zone sets
\* to +inf exactly the indices j with max(0, index - exclusion_zone) <= j <
\* min(data_length - window_size + 1, index + exclusion_zone) and leaves the
\* other entries and the length unchanged; with is_join true or
\* exclusion_zone <= 0 the profile is returned unchanged.
C5_ExclusionZone ==
    pc = "done" =>
        LET lo == Max(0, args.index - args.exclusion_zone)
            hi == Min(args.data_length - args.window_size + 1,
                      args.index + args.exclusion_zone)
            old == args.distance_profile
        IN  /\ Len(ret) = Len(old)
            /\ profile = ret
            /\ IF ~args.is_join /\ args.exclusion_zone > 0
                  THEN \A j \in 0..(Len(old) - 1) :
                          At0(ret, j) = IF lo <= j /\ j < hi
                                            THEN PosInf ELSE At0(old, j)
                  ELSE ret = old

C5_Witness ==
    /\ pc = "done"
    /\ args.data_length = 5 /\ args.window_size = 1
    /\ args.exclusion_zone = 2 /\ ~args.is_join /\ args.index = 1
    /\ args.distance_profile = <<Fin(1), Fin(4), Fin(1), Fin(4), Fin(1)>>
    /\ ret = <<PosInf, PosInf, PosInf, Fin(4), Fin(1)>>

(***************************************************************************)
(* valid_n_jobs                                                            *)
(***************************************************************************)

CapMissing(n, max_cpus) == n

\* `if n_jobs > max_cpus: n_jobs = max_cpus`
Cap(n, max_cpus) == IF n > max_cpus THEN max_cpus ELSE n

\* `if n_jobs < 1: n_jobs = max_cpus`
Floor1(n, max_cpus) == IF n < 1 THEN max_cpus ELSE n

\* valid_n_jobs(n_jobs), with max_cpus = multiprocessing.cpu_count()
valid_n_jobs(n, max_cpus) == Cap(Floor1(n, max_cpus), max_cpus)

ValidNJobs ==
    /\ pc = "start"
    /\ ret' = valid_n_jobs(args.n_jobs, args.cpu_count)
    /\ trace' = Append(trace, [level |-> "warning", cpus |-> ret'])
    /\ pc' = "done"
    /\ UNCHANGED <<args, ts, query, outcome, profile, batchVars>>

InitJobs ==
    /\ pc = "start"
    /\ IdleBatch /\ IdleArrays
    /\ args \in [n_jobs : -3..(MaxCpus + 3), cpu_count : 1..MaxCpus]
    /\ ret = 0 /\ profile = <<>>

NextJobs == ValidNJobs

SpecJobs == InitJobs /\ [][NextJobs]_vars

\* C8: valid_n_jobs returns a value in [1, cpu_count]: cpu_count when the
\* request is below 1 or above cpu_count, the request itself otherwise.
C8_ValidJobCount ==
    pc = "done" =>
        /\ 1 <= ret /\ ret <= args.cpu_count
        /\ (args.n_jobs < 1 \/ args.n_jobs > args.cpu_count) => ret = args.cpu_count
        /\ (1 <= args.n_jobs /\ args.n_jobs <= args.cpu_count) => ret = args.n_jobs

C8_Witness ==
    /\ pc = "done"
    /\ args.cpu_count = 4 /\ args.n_jobs = 6 /\ ret = 4
    /\ trace = << [level |-> "warning", cpus |-> 4] >>

====
